---- MODULE Spec2Model ----
(***************************************************************************)
(* Model of SubscriptionManager (src/src/subscription_manager.py).         *)
(*                                                                         *)
(* Representation of Python values:                                        *)
(*   - a str is a sequence of one-character strings; the three Greek       *)
(*     sigmas are written "SIGMA" (U+03A3), "sigma" (U+03C3) and "fsigma"  *)
(*     (U+03C2, final sigma);                                              *)
(*   - a money amount (float) is an integer number of hundredths          *)
(*     (10.0 is 1000, 10.01 is 1001, 15.99 is 1599);                       *)
(*   - a usage score (float) is an integer number of tenths               *)
(*     (1.0 is 10, 3.0 is 30, 5.0 is 50);                                  *)
(*   - a datetime is an integer instant;                                   *)
(*   - a raw source record (dict) is a record whose DOMAIN is the set of   *)
(*     keys present, so dict.get(k, d) can see an absent key;              *)
(*   - the dynamically typed days_since_signup is a tagged value PyInt(n)  *)
(*     or PyNone, so that an ill-typed value can reach the comparisons     *)
(*     that raise TypeError on it;                                         *)
(*   - the dict `merged` is a sequence of [key, sub] entries in insertion  *)
(*     order (Python dicts keep the position of a key that is reassigned). *)
(***************************************************************************)
EXTENDS Integers, Sequences, FiniteSets, TLC

VARIABLES
    pc,             \* position of the caller in the manager's API
    email_subs,     \* result of gmail_analyzer.find_subscription_emails()
    bank_subs,      \* result of bank_parser.find_recurring_charges()
    merged,         \* the local dict of _merge_subscription_data
    idx,            \* position of the running for loop (1-based)
    subscriptions,  \* self.subscriptions
    refund_eligible,\* the local list of generate_refund_requests
    requests,       \* calls received by refund_generator.create_refund_request
    name0,          \* a subscription name (normaliser study)
    name1           \* a variant of name0 (normaliser study)

vars == <<pc, email_subs, bank_subs, merged, idx, subscriptions,
          refund_eligible, requests, name0, name1>>

(***************************************************************************)
(* Bounds                                                                  *)
(***************************************************************************)
MaxRecords == 3
MaxNameLen == 3

(***************************************************************************)
(* Python values                                                           *)
(***************************************************************************)
NoneVal == "None"
PyInt(n) == [type |-> "int", val |-> n]
PyNone == [type |-> "NoneType", val |-> 0]

Get(d, k, default) == IF k \in DOMAIN d THEN d[k] ELSE default

UpperAscii == <<"A","B","C","D","E","F","G","H","I","J","K","L","M",
                "N","O","P","Q","R","S","T","U","V","W","X","Y","Z">>
LowerAscii == <<"a","b","c","d","e","f","g","h","i","j","k","l","m",
                "n","o","p","q","r","s","t","u","v","w","x","y","z">>

IsUpper(c) == c = "SIGMA" \/ \E i \in 1..26 : UpperAscii[i] = c
IsLower(c) == c \in {"sigma", "fsigma"} \/ \E i \in 1..26 : LowerAscii[i] = c
IsCased(c) == IsUpper(c) \/ IsLower(c)

\* U+03A3 lower-cases to the final sigma when a cased character precedes it
\* and no cased character follows it (none of the characters modelled is
\* case-ignorable), and to the ordinary sigma otherwise.
FinalSigma(s, i) ==
    /\ i > 1 /\ IsCased(s[i - 1])
    /\ (i = Len(s) \/ ~IsCased(s[i + 1]))

LowerChar(s, i) ==
    IF s[i] = "SIGMA"
    THEN IF FinalSigma(s, i) THEN "fsigma" ELSE "sigma"
    ELSE IF \E j \in 1..26 : UpperAscii[j] = s[i]
         THEN LowerAscii[CHOOSE j \in 1..26 : UpperAscii[j] = s[i]]
         ELSE s[i]

\* str.lower()
str_lower(s) == [i \in 1..Len(s) |-> LowerChar(s, i)]

RECURSIVE str_remove(_, _)
\* str.replace(c, '') for a one-character c
str_remove(s, c) ==
    IF s = <<>> THEN <<>>
    ELSE IF Head(s) = c THEN str_remove(Tail(s), c)
         ELSE <<Head(s)>> \o str_remove(Tail(s), c)

\* `w in s` for strings
str_contains(s, w) ==
    \E i \in 1..(Len(s) - Len(w) + 1) : SubSeq(s, i, i + Len(w) - 1) = w

any_word_in(words, s) == \E w \in words : str_contains(s, w)


(***************************************************************************)
(* The Subscription dataclass (lines 11-24)                                *)
(***************************************************************************)
DefaultUsageScore == 0

Subscription(name, cost, billing_cycle, last_charged, vendor_email, cancellation_url, days_since_signup) ==
    [name              |-> name,
     cost              |-> cost,
     billing_cycle     |-> billing_cycle,
     last_charged      |-> last_charged,
     vendor_email      |-> vendor_email,
     cancellation_url  |-> cancellation_url,
     phone_number      |-> NoneVal,
     usage_score       |-> DefaultUsageScore,
     refund_eligible   |-> FALSE,
     days_since_signup |-> days_since_signup,
     category          |-> "unknown"]

(***************************************************************************)
(* _generate_subscription_key (lines 89-91)                                *)
(***************************************************************************)
generate_subscription_key(name) ==
    str_remove(str_remove(str_remove(str_lower(name), " "), "-"), "_")

(***************************************************************************)
(* _merge_subscription_data (lines 53-87)                                  *)
(***************************************************************************)
HasKey(m, k) == \E j \in 1..Len(m) : m[j].key = k
IndexOf(m, k) == CHOOSE j \in 1..Len(m) : m[j].key = k
Keys(m) == {m[j].key : j \in 1..Len(m)}

\* merged[key] = value
DictSet(m, k, v) ==
    IF HasKey(m, k)
    THEN [m EXCEPT ![IndexOf(m, k)] = [key |-> k, sub |-> v]]
    ELSE Append(m, [key |-> k, sub |-> v])

\* sub['name'] on a record without the key raises KeyError
EmailRecordRaises(sub) == "name" \notin DOMAIN sub

DefaultCost == 0
DefaultDays == 0
FieldDefaultDays == 0

SubscriptionFromEmail(sub, now) ==
    Subscription(sub.name,
                 Get(sub, "cost", DefaultCost),
                 Get(sub, "billing_cycle", "monthly"),
                 Get(sub, "last_charged", now),
                 Get(sub, "vendor_email", ""),
                 Get(sub, "cancellation_url", NoneVal),
                 Get(sub, "days_since_signup", PyInt(DefaultDays)))

\* a variant that reconciles a duplicate inbox record field by field: a
\* field the later record omits keeps the value of the earlier entity
MergeEmailRecord_KeepsEarlierFields(m, sub, now) ==
    LET key == generate_subscription_key(sub.name) IN
    IF HasKey(m, key)
    THEN LET old == m[IndexOf(m, key)].sub IN
         DictSet(m, key,
                 Subscription(sub.name,
                              Get(sub, "cost", old.cost),
                              Get(sub, "billing_cycle", old.billing_cycle),
                              Get(sub, "last_charged", old.last_charged),
                              Get(sub, "vendor_email", old.vendor_email),
                              Get(sub, "cancellation_url", old.cancellation_url),
                              Get(sub, "days_since_signup", old.days_since_signup)))
    ELSE DictSet(m, key, SubscriptionFromEmail(sub, now))

\* one iteration of the loop over email_subs (lines 58-68)
MergeEmailRecord(m, sub, now) ==
    DictSet(m, generate_subscription_key(sub.name), SubscriptionFromEmail(sub, now))

\* sub['name'], sub['cost'], sub['last_charged'] are read on both branches
BankRecordRaises(sub) == ~({"name", "cost", "last_charged"} \subseteq DOMAIN sub)

\* a variant that lets the bank record rename the entity as well
UpdateFromBank_AlsoName(existing, sub) ==
    [existing EXCEPT !.name = sub.name, !.cost = sub.cost,
                     !.last_charged = sub.last_charged]

\* lines 75-76
UpdateFromBank(existing, sub) ==
    [existing EXCEPT !.cost = sub.cost, !.last_charged = sub.last_charged]

\* lines 79-85
SubscriptionFromBank(sub) ==
    Subscription(sub.name, sub.cost, "monthly", sub.last_charged, "",
                 NoneVal, PyInt(FieldDefaultDays))

\* a variant without the `if key in merged` test
MergeBankRecord_AlwaysInsert(m, sub) ==
    Append(m, [key |-> generate_subscription_key(sub.name),
               sub |-> SubscriptionFromBank(sub)])

\* one iteration of the loop over bank_subs (lines 71-85)
MergeBankRecord(m, sub) ==
    LET key == generate_subscription_key(sub.name) IN
    IF HasKey(m, key)
    THEN [m EXCEPT ![IndexOf(m, key)].sub = UpdateFromBank(@, sub)]
    ELSE Append(m, [key |-> key, sub |-> SubscriptionFromBank(sub)])

\* list(merged.values())
DictValues(m) == [j \in 1..Len(m) |-> m[j].sub]

(***************************************************************************)
(* Enrichment (lines 93-138)                                               *)
(***************************************************************************)
NewDays == 7
MonthDays == 30
ScoreNew == 10
ScorePossiblyUnused == 30
ScoreModerate == 50

\* `None < 7` raises TypeError
UsageScoreRaises(sub) == sub.days_since_signup.type # "int"

\* a variant with a non-strict first comparison
calculate_usage_score_SevenIsNew(sub) ==
    IF sub.days_since_signup.val <= NewDays THEN ScoreNew
    ELSE IF sub.days_since_signup.val < MonthDays THEN ScorePossiblyUnused
    ELSE ScoreModerate

calculate_usage_score(sub) ==
    IF sub.days_since_signup.val < NewDays THEN ScoreNew
    ELSE IF sub.days_since_signup.val < MonthDays THEN ScorePossiblyUnused
    ELSE ScoreModerate

RefundMaxDays == 30
RefundMaxScore == 30
RefundMinCost == 1000

\* a variant with a non-strict cost comparison
is_refund_eligible_CostInclusive(sub) ==
    /\ sub.days_since_signup.val <= RefundMaxDays
    /\ sub.usage_score < RefundMaxScore
    /\ sub.cost >= RefundMinCost

is_refund_eligible(sub) ==
    /\ sub.days_since_signup.val <= RefundMaxDays
    /\ sub.usage_score < RefundMaxScore
    /\ sub.cost > RefundMinCost

EntertainmentWords == {<<"n","e","t","f","l","i","x">>, <<"h","u","l","u">>, <<"d","i","s","n","e","y">>, <<"s","t","r","e","a","m","i","n","g">>}
DesignWords == {<<"a","d","o","b","e">>, <<"c","a","n","v","a">>, <<"f","i","g","m","a">>, <<"d","e","s","i","g","n">>}
DevelopmentWords == {<<"g","i","t","h","u","b">>, <<"a","w","s">>, <<"h","o","s","t","i","n","g">>, <<"d","o","m","a","i","n">>}
HealthWords == {<<"g","y","m">>, <<"f","i","t","n","e","s","s">>, <<"h","e","a","l","t","h">>}

\* a variant that tests the development keywords before the design ones
categorize_subscription_DevelopmentFirst(sub) ==
    LET name_lower == str_lower(sub.name) IN
    IF any_word_in(EntertainmentWords, name_lower) THEN "entertainment"
    ELSE IF any_word_in(DevelopmentWords, name_lower) THEN "development"
    ELSE IF any_word_in(DesignWords, name_lower) THEN "design_tools"
    ELSE IF any_word_in(HealthWords, name_lower) THEN "health_fitness"
    ELSE "other"

categorize_subscription(sub) ==
    LET name_lower == str_lower(sub.name) IN
    IF any_word_in(EntertainmentWords, name_lower) THEN "entertainment"
    ELSE IF any_word_in(DesignWords, name_lower) THEN "design_tools"
    ELSE IF any_word_in(DevelopmentWords, name_lower) THEN "development"
    ELSE IF any_word_in(HealthWords, name_lower) THEN "health_fitness"
    ELSE "other"

\* a variant that decides eligibility before the usage score is derived
EnrichOne_EligibilityFirst(sub) ==
    LET s1 == [sub EXCEPT !.refund_eligible = is_refund_eligible(sub)]
        s2 == [s1 EXCEPT !.usage_score = calculate_usage_score(s1)]
    IN  [s2 EXCEPT !.category = categorize_subscription(s2)]

\* the body of the loop of _enrich_subscription_data (lines 96-103): each
\* derivation reads the entity as the previous assignment left it
EnrichOne(sub) ==
    LET s1 == [sub EXCEPT !.usage_score = calculate_usage_score(sub)]
        s2 == [s1 EXCEPT !.refund_eligible = is_refund_eligible(s1)]
    IN  [s2 EXCEPT !.category = categorize_subscription(s2)]



(***************************************************************************)
(* What the two source connectors may return.  The connectors are not part *)
(* of the manager; these are the records the runs are explored on.         *)
(***************************************************************************)
Name_Netflix == <<"N","e","t","f","l","i","x">>
Name_NetFlixUpper == <<"N","E","T","-","F","L","I","X">>
Name_netflix == <<"n","e","t","f","l","i","x">>
Name_Net_flix == <<"N","e","t"," ","f","l","i","x">>
Name_GitHubDesignPro == <<"G","i","t","H","u","b"," ","D","e","s","i","g","n"," ","P","r","o">>
Name_github_design_pro == <<"g","i","t","h","u","b","_","d","e","s","i","g","n","-","p","r","o">>
Name_GymAws == <<"G","y","m","_","A","W","S">>
Name_gym == <<"g","y","m">>
Name_Spotify == <<"S","p","o","t","i","f","y">>
Name_spotify == <<"s","p","o","t","i","f","y">>
Name_Hulu == <<"H","u","l","u">>
Name_FitnessHulu == <<"F","i","t","n","e","s","s"," ","H","u","l","u">>

\* instants: the sources report 1..4, datetime.now() returns a later one
NowTimes == {8, 9}

EmailPool ==
    { [name |-> Name_Netflix, cost |-> 1599, billing_cycle |-> "yearly",
       last_charged |-> 1, vendor_email |-> "a@b.com",
       cancellation_url |-> "https://n/cancel", days_since_signup |-> PyInt(6)],
      [name |-> Name_NetFlixUpper, cost |-> 1000,
       days_since_signup |-> PyInt(7)],
      [name |-> Name_GitHubDesignPro, cost |-> 1001, last_charged |-> 1,
       vendor_email |-> "g@h.io", days_since_signup |-> PyInt(30)],
      [name |-> Name_GymAws, cost |-> 2000, last_charged |-> 2,
       days_since_signup |-> PyInt(29)],
      [name |-> Name_Spotify],
      [name |-> Name_FitnessHulu, cost |-> 1001, last_charged |-> 2,
       days_since_signup |-> PyInt(31)],
      [name |-> Name_Hulu, cost |-> 1599, last_charged |-> 1,
       days_since_signup |-> PyNone],
      [cost |-> 500] }

BankPool ==
    { [name |-> Name_netflix, cost |-> 1001, last_charged |-> 3],
      [name |-> Name_Net_flix, cost |-> 1000, last_charged |-> 4],
      [name |-> Name_github_design_pro, cost |-> 999, last_charged |-> 4],
      [name |-> Name_gym, cost |-> 1001, last_charged |-> 3],
      [name |-> Name_spotify, cost |-> 1500, last_charged |-> 4],
      [name |-> Name_Hulu, last_charged |-> 3],
      [name |-> Name_netflix, cost |-> 999] }

SeqsUpTo(S, n) == UNION {[1..k -> S] : k \in 0..n}

\* the two connectors return at most MaxRecords records between them
EmailInputs == SeqsUpTo(EmailPool, MaxRecords)
BankInputs(es) == SeqsUpTo(BankPool, MaxRecords - Len(es))

(***************************************************************************)
(* __init__ (lines 29-33)                                                  *)
(***************************************************************************)
Init ==
    /\ pc = "constructed"
    /\ email_subs = <<>>
    /\ bank_subs = <<>>
    /\ merged = <<>>
    /\ idx = 1
    /\ subscriptions = <<>>
    /\ refund_eligible = <<>>
    /\ requests = <<>>
    /\ name0 = <<>>
    /\ name1 = <<>>

(***************************************************************************)
(* discover_subscriptions (lines 35-51), one action per call of a          *)
(* collaborator and per loop iteration.  An exception leaves the method    *)
(* at once: pc = "raised" is the caller holding the exception.             *)
(***************************************************************************)
\* line 38
FetchEmail ==
    /\ pc = "constructed"
    /\ \E es \in EmailInputs : email_subs' = es
    /\ pc' = "fetch_bank"
    /\ UNCHANGED <<bank_subs, merged, idx, subscriptions, refund_eligible,
                   requests, name0, name1>>

\* line 38, the connector raises
FetchEmailRaises ==
    /\ pc = "constructed"
    /\ pc' = "raised"
    /\ UNCHANGED <<email_subs, bank_subs, merged, idx, subscriptions,
                   refund_eligible, requests, name0, name1>>

\* line 41, then line 55
FetchBank ==
    /\ pc = "fetch_bank"
    /\ \E bs \in BankInputs(email_subs) : bank_subs' = bs
    /\ pc' = "merge_email"
    /\ merged' = <<>>
    /\ idx' = 1
    /\ UNCHANGED <<email_subs, subscriptions, refund_eligible, requests,
                   name0, name1>>

\* line 41, the connector raises
FetchBankRaises ==
    /\ pc = "fetch_bank"
    /\ pc' = "raised"
    /\ UNCHANGED <<email_subs, bank_subs, merged, idx, subscriptions,
                   refund_eligible, requests, name0, name1>>

\* lines 58-68, one record
MergeEmailStep ==
    /\ pc = "merge_email"
    /\ idx <= Len(email_subs)
    /\ ~EmailRecordRaises(email_subs[idx])
    /\ \E now \in NowTimes :
          merged' = MergeEmailRecord(merged, email_subs[idx], now)
    /\ idx' = idx + 1
    /\ UNCHANGED <<pc, email_subs, bank_subs, subscriptions, refund_eligible,
                   requests, name0, name1>>

\* line 59, KeyError
MergeEmailRaises ==
    /\ pc = "merge_email"
    /\ idx <= Len(email_subs)
    /\ EmailRecordRaises(email_subs[idx])
    /\ pc' = "raised"
    /\ UNCHANGED <<email_subs, bank_subs, merged, idx, subscriptions,
                   refund_eligible, requests, name0, name1>>

\* the loop over email_subs is exhausted
MergeEmailDone ==
    /\ pc = "merge_email"
    /\ idx > Len(email_subs)
    /\ pc' = "merge_bank"
    /\ idx' = 1
    /\ UNCHANGED <<email_subs, bank_subs, merged, subscriptions,
                   refund_eligible, requests, name0, name1>>

\* lines 71-85, one record
MergeBankStep ==
    /\ pc = "merge_bank"
    /\ idx <= Len(bank_subs)
    /\ ~BankRecordRaises(bank_subs[idx])
    /\ merged' = MergeBankRecord(merged, bank_subs[idx])
    /\ idx' = idx + 1
    /\ UNCHANGED <<pc, email_subs, bank_subs, subscriptions, refund_eligible,
                   requests, name0, name1>>

\* what an iteration that raises KeyError has done to merged by then: with
\* the key present and sub['cost'] readable, line 75 has assigned the cost
\* before line 76 fails on sub['last_charged']; in every other case the
\* KeyError comes before any assignment (line 72, 75, or the arguments of
\* lines 79-85)
MergeBankPartial(m, sub) ==
    IF "name" \notin DOMAIN sub THEN m
    ELSE LET key == generate_subscription_key(sub.name) IN
         IF HasKey(m, key) /\ "cost" \in DOMAIN sub
         THEN [m EXCEPT ![IndexOf(m, key)].sub.cost = sub.cost]
         ELSE m

\* lines 72-83, KeyError
MergeBankRaises ==
    /\ pc = "merge_bank"
    /\ idx <= Len(bank_subs)
    /\ BankRecordRaises(bank_subs[idx])
    /\ merged' = MergeBankPartial(merged, bank_subs[idx])
    /\ pc' = "raised"
    /\ UNCHANGED <<email_subs, bank_subs, idx, subscriptions,
                   refund_eligible, requests, name0, name1>>

\* line 87 and the assignment of lines 44-46
MergeReturn ==
    /\ pc = "merge_bank"
    /\ idx > Len(bank_subs)
    /\ subscriptions' = DictValues(merged)
    /\ pc' = "enrich"
    /\ idx' = 1
    /\ UNCHANGED <<email_subs, bank_subs, merged, refund_eligible, requests,
                   name0, name1>>

\* lines 95-103, one entity
EnrichStep ==
    /\ pc = "enrich"
    /\ idx <= Len(subscriptions)
    /\ ~UsageScoreRaises(subscriptions[idx])
    /\ subscriptions' = [subscriptions EXCEPT ![idx] = EnrichOne(@)]
    /\ idx' = idx + 1
    /\ UNCHANGED <<pc, email_subs, bank_subs, merged, refund_eligible,
                   requests, name0, name1>>

\* line 110, TypeError
EnrichRaises ==
    /\ pc = "enrich"
    /\ idx <= Len(subscriptions)
    /\ UsageScoreRaises(subscriptions[idx])
    /\ pc' = "raised"
    /\ UNCHANGED <<email_subs, bank_subs, merged, idx, subscriptions,
                   refund_eligible, requests, name0, name1>>

\* line 51
DiscoverReturn ==
    /\ pc = "enrich"
    /\ idx > Len(subscriptions)
    /\ pc' = "returned"
    /\ UNCHANGED <<email_subs, bank_subs, merged, idx, subscriptions,
                   refund_eligible, requests, name0, name1>>

(***************************************************************************)
(* generate_refund_requests (lines 195-204)                                *)
(***************************************************************************)
IsEligible(sub) == sub.refund_eligible

\* line 197
RefundStart ==
    /\ pc = "returned"
    /\ refund_eligible' = SelectSeq(subscriptions, IsEligible)
    /\ pc' = "refund"
    /\ idx' = 1
    /\ UNCHANGED <<email_subs, bank_subs, merged, subscriptions, requests,
                   name0, name1>>

\* what create_refund_request may do: return; raise an Exception (subclass)
\* that str() can format; raise an Exception (subclass) whose __str__ itself
\* raises; or raise a BaseException that is no Exception (KeyboardInterrupt,
\* SystemExit, GeneratorExit)
Outcomes == {"ok", "Exception", "ExceptionStrRaises", "BaseException"}

\* lines 200-204: where control goes after the call.  `except Exception`
\* lets a BaseException that is no Exception leave the method, and the
\* handler's own f-string (line 204) formats the caught exception, so an
\* exception whose __str__ raises makes the handler raise in its turn
AfterRequest(outcome) ==
    IF outcome \in {"ok", "Exception"} THEN "refund" ELSE "refund_raised"

\* lines 199-204, one entity
RefundStep ==
    /\ pc = "refund"
    /\ idx <= Len(refund_eligible)
    /\ \E outcome \in Outcomes :
          /\ requests' = Append(requests, [subscription |-> refund_eligible[idx],
                                            outcome |-> outcome])
          /\ pc' = AfterRequest(outcome)
    /\ idx' = IF pc' = "refund" THEN idx + 1 ELSE idx
    /\ UNCHANGED <<email_subs, bank_subs, merged, subscriptions,
                   refund_eligible, name0, name1>>

\* the loop is exhausted
RefundReturn ==
    /\ pc = "refund"
    /\ idx > Len(refund_eligible)
    /\ pc' = "refunds_done"
    /\ UNCHANGED <<email_subs, bank_subs, merged, idx, subscriptions,
                   refund_eligible, requests, name0, name1>>

Next ==
    \/ FetchEmail \/ FetchEmailRaises \/ FetchBank \/ FetchBankRaises
    \/ MergeEmailStep \/ MergeEmailRaises \/ MergeEmailDone
    \/ MergeBankStep \/ MergeBankRaises \/ MergeReturn
    \/ EnrichStep \/ EnrichRaises \/ DiscoverReturn
    \/ RefundStart \/ RefundStep \/ RefundReturn

Spec == Init /\ [][Next]_vars



(***************************************************************************)
(* Study of _generate_subscription_key on its own: name1 is rewritten, one *)
(* character at a time, into names that differ from name0 only in letter   *)
(* case or in the placement of spaces, hyphens and underscores.            *)
(***************************************************************************)
NameChars == {"a", "A", "SIGMA", "sigma", " ", "-", "_"}
Separators == {" ", "-", "_"}

\* the other-case forms of a letter
CaseVariants(c) ==
    IF c = "SIGMA" THEN {"sigma"}
    ELSE IF c = "sigma" THEN {"SIGMA"}
    ELSE IF \E j \in 1..26 : UpperAscii[j] = c
         THEN {LowerAscii[CHOOSE j \in 1..26 : UpperAscii[j] = c]}
    ELSE IF \E j \in 1..26 : LowerAscii[j] = c
         THEN {UpperAscii[CHOOSE j \in 1..26 : LowerAscii[j] = c]}
    ELSE {}

InitKey ==
    /\ pc = "key_study"
    /\ email_subs = <<>>
    /\ bank_subs = <<>>
    /\ merged = <<>>
    /\ idx = 1
    /\ subscriptions = <<>>
    /\ refund_eligible = <<>>
    /\ requests = <<>>
    /\ name0 \in SeqsUpTo(NameChars, MaxNameLen)
    /\ name1 = name0

SwapCase ==
    /\ pc = "key_study"
    /\ \E i \in 1..Len(name1) : \E c \in CaseVariants(name1[i]) :
          name1' = [name1 EXCEPT ![i] = c]
    /\ UNCHANGED <<pc, email_subs, bank_subs, merged, idx, subscriptions,
                   refund_eligible, requests, name0>>

InsertSeparator ==
    /\ pc = "key_study"
    /\ Len(name1) < MaxNameLen
    /\ \E i \in 0..Len(name1) : \E c \in Separators :
          name1' = SubSeq(name1, 1, i) \o <<c>> \o SubSeq(name1, i + 1, Len(name1))
    /\ UNCHANGED <<pc, email_subs, bank_subs, merged, idx, subscriptions,
                   refund_eligible, requests, name0>>

RemoveSeparator ==
    /\ pc = "key_study"
    /\ \E i \in 1..Len(name1) :
          /\ name1[i] \in Separators
          /\ name1' = SubSeq(name1, 1, i - 1) \o SubSeq(name1, i + 1, Len(name1))
    /\ UNCHANGED <<pc, email_subs, bank_subs, merged, idx, subscriptions,
                   refund_eligible, requests, name0>>

NextKey == SwapCase \/ InsertSeparator \/ RemoveSeparator

SpecKey == InitKey /\ [][NextKey]_vars



(***************************************************************************)
(* Properties                                                              *)
(***************************************************************************)
\* discover_subscriptions has just returned self.subscriptions
Returned == pc = "returned"
\* _merge_subscription_data has just returned and its list is assigned
MergeDone == pc = "enrich" /\ idx = 1
Key(r) == generate_subscription_key(r.name)
EmailKeys == {Key(email_subs[i]) : i \in 1..Len(email_subs)}
BankKeys == {Key(bank_subs[i]) : i \in 1..Len(bank_subs)}
Entities == {subscriptions[j] : j \in 1..Len(subscriptions)}

\* C1: a bank record whose key is already in the merged map changes only
\* cost and last_charged of that entity, to the bank values; every other
\* field of it and every other entity stay as they were (also when the
\* record lacks a field and the iteration raises part way).
BankUpdateFrame ==
    [][ ( /\ pc = "merge_bank"
          /\ idx <= Len(bank_subs)
          /\ "name" \in DOMAIN bank_subs[idx]
          /\ HasKey(merged, Key(bank_subs[idx])) )
        => /\ Len(merged') = Len(merged)
           /\ \A j \in 1..Len(merged) :
                IF merged[j].key = Key(bank_subs[idx])
                THEN /\ merged'[j].key = merged[j].key
                     /\ idx' = idx + 1 =>
                           /\ merged'[j].sub.cost = bank_subs[idx].cost
                           /\ merged'[j].sub.last_charged = bank_subs[idx].last_charged
                     /\ \A f \in DOMAIN merged[j].sub \ {"cost", "last_charged"} :
                           merged'[j].sub[f] = merged[j].sub[f]
                ELSE merged'[j] = merged[j]
      ]_vars

\* C1 witness: a bank record has just updated an inbox entity that differs
\* from it in name and cost, next to an entity of another key.
BankUpdateSeen ==
    /\ pc = "merge_bank" /\ idx = 2
    /\ Len(merged) = 2
    /\ \E j \in 1..2 :
          /\ merged[j].key = Key(bank_subs[1])
          /\ merged[j].sub.name # bank_subs[1].name
          /\ merged[j].sub.vendor_email = "a@b.com"
          /\ merged[j].sub.cost = bank_subs[1].cost
          /\ merged[j].sub.cost # email_subs[j].cost

\* C2: the merged list has exactly one entity per distinct canonical key of
\* the two inputs.
OneEntityPerKey ==
    MergeDone =>
        /\ Len(subscriptions) = Cardinality(EmailKeys \cup BankKeys)
        /\ {generate_subscription_key(s.name) : s \in Entities}
              = EmailKeys \cup BankKeys

\* C2 witness: three records, two of them sharing a key across the sources
\* under different names and one with a key of its own, gave two entities.
TwoOfThreeSeen ==
    /\ MergeDone
    /\ Len(email_subs) = 2 /\ Len(bank_subs) = 1
    /\ Len(subscriptions) = 2
    /\ \E i \in 1..2 :
          /\ Key(email_subs[i]) = Key(bank_subs[1])
          /\ email_subs[i].name # bank_subs[1].name

\* C3: a returned entity is refund eligible exactly when days_since_signup
\* <= 30, usage_score < 3.0 and cost > 10.0.
EligibilityPredicate ==
    Returned =>
        \A s \in Entities :
            s.refund_eligible <=> ( /\ s.days_since_signup.val <= 30
                                    /\ s.usage_score < 30
                                    /\ s.cost > 1000 )

\* C3 witness: a returned run holds an entity at cost 10.00 exactly that is
\* not eligible, and an eligible one at cost 10.01.
EligibilityBoundarySeen ==
    /\ Returned
    /\ \E s \in Entities :
          /\ s.cost = 1000 /\ s.days_since_signup.val = 6
          /\ s.usage_score = 10 /\ ~s.refund_eligible
    /\ \E s \in Entities : s.cost = 1001 /\ s.refund_eligible

\* C4: the usage score of a returned entity is 1.0 below 7 days, 3.0 from 7
\* to 29 days and 5.0 from 30 days on.
UsageScoreBuckets ==
    Returned =>
        \A s \in Entities :
            /\ s.days_since_signup.val < 7 => s.usage_score = 10
            /\ (7 <= s.days_since_signup.val /\ s.days_since_signup.val < 30)
                  => s.usage_score = 30
            /\ s.days_since_signup.val >= 30 => s.usage_score = 50
            /\ s.usage_score \in {10, 30, 50}

\* C4 witness: a returned run holds entities at the bucket edges 7 and 30.
BucketEdgesSeen ==
    /\ Returned
    /\ \E s \in Entities : s.days_since_signup.val = 7 /\ s.usage_score = 30
    /\ \E s \in Entities : s.days_since_signup.val = 30 /\ s.usage_score = 50

\* two characters are the same letter up to case
SameLetter(c, d) ==
    \/ c = d
    \/ \E j \in 1..26 : {c, d} = {UpperAscii[j], LowerAscii[j]}

\* w occurs in s up to letter case
OccursIgnoringCase(w, s) ==
    \E i \in 1..(Len(s) - Len(w) + 1) :
        \A j \in 1..Len(w) : SameLetter(s[i + j - 1], w[j])

GroupOrder ==
    << [category |-> "entertainment",  words |-> EntertainmentWords],
       [category |-> "design_tools",   words |-> DesignWords],
       [category |-> "development",    words |-> DevelopmentWords],
       [category |-> "health_fitness", words |-> HealthWords] >>

GroupsMatching(name) ==
    {g \in 1..4 : \E w \in GroupOrder[g].words : OccursIgnoringCase(w, name)}

\* C5: the category of a returned entity is that of the first keyword group,
\* in the order entertainment, design_tools, development, health_fitness,
\* with a keyword occurring in the name up to case, and other when none has.
FirstGroupWins ==
    Returned =>
        \A s \in Entities :
            LET hits == GroupsMatching(s.name) IN
            IF hits = {} THEN s.category = "other"
            ELSE s.category =
                    GroupOrder[CHOOSE g \in hits : \A h \in hits : g <= h].category

\* C5 witness: a returned run holds GitHub Design Pro, which matches two
\* groups, as design_tools, and a name that matches none.
TwoGroupNameSeen ==
    /\ Returned
    /\ \E s \in Entities :
          /\ s.name = Name_GitHubDesignPro
          /\ GroupsMatching(s.name) = {2, 3}
          /\ s.category = "design_tools"
    /\ \E s \in Entities : GroupsMatching(s.name) = {} /\ s.category = "other"

LastEmailIndex(k) ==
    CHOOSE i \in 1..Len(email_subs) :
        /\ Key(email_subs[i]) = k
        /\ \A h \in (i + 1)..Len(email_subs) : Key(email_subs[h]) # k

\* C6: before the bank records are processed, each merged entity is built
\* from the last inbox record of its key alone, absent fields at their
\* defaults.
LastInboxRecordWins ==
    (pc = "merge_bank" /\ idx = 1) =>
        \A j \in 1..Len(merged) :
            LET r == email_subs[LastEmailIndex(merged[j].key)]
                s == merged[j].sub
            IN  /\ s.name = r.name
                /\ s.cost = Get(r, "cost", 0)
                /\ s.billing_cycle = Get(r, "billing_cycle", "monthly")
                /\ IF "last_charged" \in DOMAIN r
                   THEN s.last_charged = r.last_charged
                   ELSE s.last_charged \in NowTimes
                /\ s.vendor_email = Get(r, "vendor_email", "")
                /\ s.cancellation_url = Get(r, "cancellation_url", NoneVal)
                /\ s.phone_number = NoneVal
                /\ s.days_since_signup = Get(r, "days_since_signup", PyInt(0))
                /\ s.usage_score = 0
                /\ s.refund_eligible = FALSE
                /\ s.category = "unknown"

\* C6 witness: two inbox records of one key were merged, the first carrying
\* fields the second omits.
DuplicateInboxSeen ==
    /\ pc = "merge_bank" /\ idx = 1
    /\ Len(email_subs) = 2 /\ Len(merged) = 1
    /\ "vendor_email" \in DOMAIN email_subs[1]
    /\ "vendor_email" \notin DOMAIN email_subs[2]
    /\ "last_charged" \notin DOMAIN email_subs[2]
    /\ email_subs[1].vendor_email # ""
    /\ merged[1].sub.vendor_email = ""

\* C7: after a run of discover_subscriptions that raised, the manager holds
\* no result of that run.
AllOrNothing ==
    pc = "raised" => subscriptions = <<>>

\* C8: create_refund_request is called once, in list order, for each refund
\* eligible entity and for no other, and a call that fails by raising an
\* Exception neither stops the calls after it nor reaches the caller.
RefundFailureIsolated ==
    /\ (\E j \in 1..Len(requests) :
            requests[j].outcome \in {"Exception", "ExceptionStrRaises"})
          => pc \in {"refund", "refunds_done"}
    /\ pc \in {"refund", "refunds_done"} =>
          /\ \A j \in 1..Len(requests) : requests[j].subscription.refund_eligible
          /\ [j \in 1..Len(requests) |-> requests[j].subscription]
                = SubSeq(SelectSeq(subscriptions, IsEligible), 1, idx - 1)
    /\ pc = "refunds_done" =>
          Len(requests) = Cardinality({j \in 1..Len(subscriptions) :
                                          subscriptions[j].refund_eligible})

\* What does hold of generate_refund_requests: the calls made are always, in
\* list order and once each, a prefix of the refund eligible entities; when
\* the method returns every eligible entity has been called; and a call
\* leaves the method, as its last call, exactly when it raised something the
\* handler does not survive.
RefundExceptionIsolated ==
    /\ pc \in {"refund", "refunds_done", "refund_raised"} =>
          /\ \A j \in 1..Len(requests) : requests[j].subscription.refund_eligible
          /\ [j \in 1..Len(requests) |-> requests[j].subscription]
                = SubSeq(SelectSeq(subscriptions, IsEligible), 1, Len(requests))
    /\ pc = "refund" => Len(requests) = idx - 1
    /\ pc = "refunds_done" =>
          Len(requests) = Cardinality({j \in 1..Len(subscriptions) :
                                          subscriptions[j].refund_eligible})
    /\ \A j \in 1..Len(requests) :
          requests[j].outcome \in {"ExceptionStrRaises", "BaseException"}
             <=> (j = Len(requests) /\ pc = "refund_raised")
    /\ pc = "refund_raised" => requests # <<>>

\* the method returned after a failed call that was followed by
\* another call, with an entity that is not eligible left out.
FailureThenCallSeen ==
    /\ pc = "refunds_done"
    /\ Len(requests) >= 2
    /\ requests[1].outcome = "Exception"
    /\ Len(subscriptions) > Len(requests)

\* the key has none of the three separators and is a fixed point
KeyIsClean(k) ==
    /\ \A i \in 1..Len(k) : k[i] \notin Separators
    /\ generate_subscription_key(k) = k

\* C9: names that differ only in letter case or in the placement of spaces,
\* hyphens and underscores have the same key, which holds no separator and
\* is left unchanged by the normaliser.
KeyIgnoresCaseAndSeparators ==
    pc = "key_study" =>
        /\ generate_subscription_key(name1) = generate_subscription_key(name0)
        /\ KeyIsClean(generate_subscription_key(name1))

\* C10: a returned entity is eligible exactly when days_since_signup < 7 and
\* cost > 10.0; none with 7 to 30 days is; one made from bank records alone
\* has 0 days and is eligible exactly when its cost exceeds 10.0.
EligibleOnlyWhenNew ==
    Returned =>
        \A s \in Entities :
            /\ s.refund_eligible <=> (s.days_since_signup.val < 7 /\ s.cost > 1000)
            /\ (7 <= s.days_since_signup.val /\ s.days_since_signup.val <= 30)
                  => ~s.refund_eligible
            /\ generate_subscription_key(s.name) \notin EmailKeys
                  => /\ s.days_since_signup = PyInt(0)
                     /\ s.refund_eligible <=> s.cost > 1000

\* C10 witness: a returned run holds an eligible entity made from a bank
\* record alone and a costly inbox entity of 29 days that is not eligible.
BankOnlyEligibleSeen ==
    /\ Returned
    /\ \E s \in Entities :
          /\ generate_subscription_key(s.name) \notin EmailKeys
          /\ s.refund_eligible
    /\ \E s \in Entities :
          /\ s.days_since_signup.val = 29 /\ s.cost = 2000
          /\ ~s.refund_eligible


====
